---- MODULE Spec2Model ----
(***************************************************************************)
(* Model of file_organizer.py: FileOrganizerThread.run, the engine that    *)
(* sorts the regular files of a directory into one subdirectory per        *)
(* extension (commit mode) or only counts them (preview mode).             *)
(*                                                                         *)
(* File names are sequences of one-character strings, so that splitext,    *)
(* lower() and the f-string that builds a collision name are computed as   *)
(* the code computes them.  A path below the source directory is a         *)
(* sequence of names: <<name>> is an entry of the source directory,        *)
(* <<dir, name>> an entry of one of its subdirectories.                    *)
(*                                                                         *)
(* Spec is the thread alone, as FileOrganizerApp starts it.  AppSpec is    *)
(* the window FileOrganizerApp with its handlers: it starts threads, and   *)
(* the signals of a thread reach the handlers through Qt's queue, in the   *)
(* order of emission, while the thread goes on.                            *)
(***************************************************************************)
EXTENDS Integers, Sequences, FiniteSets, TLC

\* ------------------------------------------------------------------ bounds
\* Largest number of regular files in the source directory at the start.
MaxFiles == 3
\* Largest number of files already present in subdirectories at the start.
MaxPre == 2
\* The same two bounds for the directory the window works on.
AppMaxFiles == 2
AppMaxPre == 1
\* Largest number of runs started from the window.
MaxRuns == 2

\* ------------------------------------------------------------------- names
N_a_txt == <<"a", ".", "t", "x", "t">>
N_a_TXT == <<"a", ".", "T", "X", "T">>
N_a_1_txt == <<"a", "_", "1", ".", "t", "x", "t">>
N_txt == <<"t", "x", "t">>
N_hidden == <<".", "s">>
N_a_dot == <<"a", ".">>
N_d == <<"d">>
\* the literal of line 49
no_extension == <<"n", "o", "_", "e", "x", "t", "e", "n", "s", "i", "o", "n">>

\* Names a regular file of the source directory may have at the start.
RootNames == {N_a_txt, N_a_TXT, N_a_1_txt, N_txt, N_hidden, N_a_dot, no_extension}
\* Names a subdirectory of the source directory may have at the start.
DirNames == {N_txt, no_extension, N_d}
\* Files that may already lie in a subdirectory at the start.
PrePaths == {<<N_txt, N_a_txt>>, <<N_txt, N_a_1_txt>>, <<N_txt, N_a_TXT>>,
             <<no_extension, N_txt>>}

\* The value a path of a directory maps to; a file maps to its content,
\* which is named by the path the file had at the start.
DIR == <<>>

\* ------------------------------------------------------------- str methods
UpperChars == <<"A", "B", "C", "D", "E", "F", "G", "H", "I", "J", "K", "L", "M",
                "N", "O", "P", "Q", "R", "S", "T", "U", "V", "W", "X", "Y", "Z">>
LowerChars == <<"a", "b", "c", "d", "e", "f", "g", "h", "i", "j", "k", "l", "m",
                "n", "o", "p", "q", "r", "s", "t", "u", "v", "w", "x", "y", "z">>

\* str.lower() on one character
LowerChar(c) ==
    IF \E i \in 1..26 : UpperChars[i] = c
    THEN LowerChars[CHOOSE i \in 1..26 : UpperChars[i] = c]
    ELSE c

\* str.lower()
Lower(s) == [i \in 1..Len(s) |-> LowerChar(s[i])]

DigitChars == <<"0", "1", "2", "3", "4", "5", "6", "7", "8", "9">>

\* the decimal text of a non-negative int, as an f-string field writes it
RECURSIVE IntStr(_)
IntStr(n) ==
    IF n < 10 THEN <<DigitChars[n + 1]>>
    ELSE IntStr(n \div 10) \o <<DigitChars[(n % 10) + 1]>>

\* str.rfind('.') + 1: the 1-based position of the last dot, 0 if none
LastDot(s) ==
    IF \E i \in 1..Len(s) : s[i] = "."
    THEN CHOOSE i \in 1..Len(s) : s[i] = "." /\ \A j \in (i + 1)..Len(s) : s[j] # "."
    ELSE 0

\* os.path.splitext(file) on a name without separator: split at the last
\* dot, unless only dots precede it (then the extension is empty).
splitext(file) ==
    LET d == LastDot(file)
    IN  IF d > 0 /\ \E j \in 1..(d - 1) : file[j] # "."
        THEN <<SubSeq(file, 1, d - 1), SubSeq(file, d, Len(file))>>
        ELSE <<file, <<>> >>

\* variant: the hidden-file test of line 41 is missing
IsHiddenNever(file) == FALSE

\* file.startswith('.')
IsHidden(file) == Len(file) > 0 /\ file[1] = "."

\* s[1:]
DropFirst(s) == SubSeq(s, 2, Len(s))

\* lines 45-49: the extension key of a file
ExtKey(file) ==
    LET ext == DropFirst(Lower(splitext(file)[2]))
    IN  IF ext = <<>> THEN no_extension ELSE ext

\* -------------------------------------------------------------- filesystem
\* os.path.exists(path)
exists(f, path) == path \in DOMAIN f

\* variant: the filter of line 29 is missing, every entry is listed
isentry(f, name) == <<name>> \in DOMAIN f

\* os.path.isfile(os.path.join(source_dir, name))
isfile(f, name) == <<name>> \in DOMAIN f /\ f[<<name>>] # DIR

\* os.path.isdir(os.path.join(source_dir, name))
isdir(f, name) == <<name>> \in DOMAIN f /\ f[<<name>>] = DIR

\* os.makedirs(ext_dir) of a path that does not exist
makedirs(f, ext_dir) == [p \in DOMAIN f \cup {ext_dir} |-> IF p = ext_dir THEN DIR ELSE f[p]]

\* lines 58-59: create the extension directory unless the path exists
EnsureDir(f, ext_dir) == IF exists(f, ext_dir) THEN f ELSE makedirs(f, ext_dir)

\* f"{base}_{counter}{extension}"
CollisionName(base, counter, extension) == base \o <<"_">> \o IntStr(counter) \o extension

\* lines 68-70: the while loop, from the given counter on
RECURSIVE FreeCounter(_, _, _, _, _)
FreeCounter(f, ext, base, extension, counter) ==
    IF exists(f, <<ext, CollisionName(base, counter, extension)>>)
    THEN FreeCounter(f, ext, base, extension, counter + 1)
    ELSE counter

\* variant: lines 66-71 are missing, the destination is never tested
ResolveDestUnchecked(f, ext, file) == <<ext, file>>

\* variant: the collision name is built from the normalized key instead of
\* the original extension string
ResolveDestNormalized(f, ext, file) ==
    IF exists(f, <<ext, file>>)
    THEN LET base == splitext(file)[1]
             extension == <<".">> \o ext
         IN  <<ext, CollisionName(base, FreeCounter(f, ext, base, extension, 1), extension)>>
    ELSE <<ext, file>>

\* lines 63-71: the destination path chosen for a file
ResolveDest(f, ext, file) ==
    IF exists(f, <<ext, file>>)
    THEN LET base == splitext(file)[1]
             extension == splitext(file)[2]
         IN  <<ext, CollisionName(base, FreeCounter(f, ext, base, extension, 1), extension)>>
    ELSE <<ext, file>>

\* shutil.move(source_path, path) can write its destination when the parent
\* of path is a directory; when the parent is a regular file, os.rename and
\* the copy fallback both raise NotADirectoryError.
MoveAllowed(f, path) == isdir(f, path[1])

\* variant: the file is copied (shutil.copy), the source stays
moveKeepsSource(f, source_path, dest_path) ==
    [p \in DOMAIN f \cup {dest_path} |-> IF p = dest_path THEN f[source_path] ELSE f[p]]

\* the filesystem after a successful shutil.move: os.rename replaces a
\* regular file that lies at the destination
move(f, source_path, dest_path) ==
    [p \in (DOMAIN f \ {source_path}) \cup {dest_path} |->
        IF p = dest_path THEN f[source_path] ELSE f[p]]

\* line 76: int((index + 1) / total_files * 100); the float product is the
\* exact floor for every total_files below 50.
Progress(index, total_files) == ((index + 1) * 100) \div total_files

\* line 52: organized_files[ext] = organized_files.get(ext, 0) + 1
Count(t, ext) ==
    [k \in DOMAIN t \cup {ext} |->
        IF k = ext THEN (IF ext \in DOMAIN t THEN t[ext] ELSE 0) + 1 ELSE t[k]]

\* line 32
NoFilesMsg == <<"No files found in the selected directory.">>

\* variant: the message names the organizing phase in both modes
ErrorMsgOrganizing(preview, e) == <<"Error ", "organizing", " files: ", e>>

\* line 86: f"Error {'previewing' if self.preview_only else 'organizing'} files: {str(e)}"
ErrorMsg(preview, e) ==
    <<"Error ", IF preview THEN "previewing" ELSE "organizing", " files: ", e>>

\* a signal emitted by the thread
Signal(name, arg) == [sig |-> name, arg |-> arg]

\* the orders os.listdir may return the names of S in
Orders(S) ==
    {s \in [1..Cardinality(S) -> S] : \A i, j \in 1..Cardinality(S) : s[i] = s[j] => i = j}

\* ------------------------------------------------------------------- state
VARIABLES
    fs,               \* the subtree of source_dir: path -> DIR or file content
    fs0,              \* fs when the thread was constructed
    preview_only,     \* self.preview_only
    pc,               \* "idle" (constructed), "loop" (lines 39-77), "done" (returned)
    files,            \* the list of line 28
    index,            \* the loop index of line 39 (0-based, as in the code)
    organized_files,  \* the dict of line 25
    source_path,      \* line 62, <<>> before the first file is moved
    dest_path,        \* lines 63/71, <<>> before the first file is moved
    events,           \* the signals emitted so far, in order
    io_fault          \* a filesystem call failed for a reason outside the subtree

vars == <<fs, fs0, preview_only, pc, files, index, organized_files,
          source_path, dest_path, events, io_fault>>

\* the window FileOrganizerApp
VARIABLES
    select_button,    \* isEnabled() of the four widgets of toggle_ui_elements
    preview_button,
    organize_button,
    preview_checkbox,
    selected_dir,     \* "None" or the directory chosen
    organizer_thread, \* "None", or "started" once a thread was started
    connected,        \* the signals of organizer_thread that have a slot
    handled,          \* how many of events the handlers have received
    progress_bar,     \* "hidden" or its value
    results_list,     \* the items of the list
    status_label,     \* its text
    runs,             \* threads started so far
    rerun             \* history: the thread was started while the window
                      \* showed "Organization completed!"

appvars == <<select_button, preview_button, organize_button, preview_checkbox,
             selected_dir, organizer_thread, connected, handled, progress_bar,
             results_list, status_label, runs, rerun>>

allvars == <<vars, appvars>>

\* lines 184-186, 212-214: the signals connected to a slot
Connections(preview) ==
    {"progress_update", IF preview THEN "preview_signal" ELSE "finished_signal", "error_signal"}

\* lines 180, 208
StartStatus(preview) == IF preview THEN "Previewing organization..." ELSE "Organizing files..."

EmptyDict == [k \in {} |-> 0]

\* A source directory: at most MaxFiles regular files, some subdirectories,
\* at most MaxPre files inside them; no name is both a file and a directory.
InitialFs(rootSet, dirSet, preSet) ==
    [p \in {<<n>> : n \in rootSet \cup dirSet} \cup preSet |->
        IF Len(p) = 1 /\ p[1] \in dirSet THEN DIR ELSE p]

\* lines 17-20: FileOrganizerThread(source_dir, preview_only)
Init ==
    /\ \E rootSet \in SUBSET RootNames, dirSet \in SUBSET DirNames, preSet \in SUBSET PrePaths :
          /\ Cardinality(rootSet) <= MaxFiles
          /\ Cardinality(preSet) <= MaxPre
          /\ rootSet \cap dirSet = {}
          /\ \A p \in preSet : p[1] \in dirSet
          /\ fs = InitialFs(rootSet, dirSet, preSet)
    /\ fs0 = fs
    /\ preview_only \in BOOLEAN
    /\ pc = "idle"
    /\ files = <<>>
    /\ index = 0
    /\ organized_files = EmptyDict
    /\ source_path = <<>>
    /\ dest_path = <<>>
    /\ events = <<>>
    /\ io_fault = FALSE
    \* the window after preview_files or organize_files started the thread
    /\ select_button = FALSE
    /\ preview_button = FALSE
    /\ organize_button = FALSE
    /\ preview_checkbox = FALSE
    /\ selected_dir = "dir"
    /\ organizer_thread = "started"
    /\ connected = Connections(preview_only)
    /\ handled = 0
    /\ progress_bar = 0
    /\ results_list = <<>>
    /\ status_label = StartStatus(preview_only)
    /\ runs = 1
    /\ rerun = FALSE

\* the except clause of lines 85-86: emit the message, leave run
Raise(e) ==
    /\ events' = Append(events, Signal("error_signal", ErrorMsg(preview_only, e)))
    /\ pc' = "done"

\* line 28: os.listdir raises (the directory is missing or unreadable)
ListDirRaises ==
    /\ pc = "idle"
    /\ io_fault' = TRUE
    /\ Raise("listdir")
    /\ UNCHANGED <<fs, fs0, preview_only, files, index, organized_files, source_path, dest_path>>

\* variant: the return of line 33 is missing
ScanEmptyNoReturn ==
    /\ pc = "idle"
    /\ {n \in RootNames \cup DirNames : isfile(fs, n)} = {}
    /\ events' = Append(events, Signal("error_signal", NoFilesMsg))
    /\ pc' = "loop"
    /\ UNCHANGED <<fs, fs0, preview_only, files, index, organized_files,
                   source_path, dest_path, io_fault>>

\* lines 28-33: the directory holds no regular file
ScanEmpty ==
    /\ pc = "idle"
    /\ {n \in RootNames \cup DirNames : isfile(fs, n)} = {}
    /\ events' = Append(events, Signal("error_signal", NoFilesMsg))
    /\ pc' = "done"
    /\ UNCHANGED <<fs, fs0, preview_only, files, index, organized_files,
                   source_path, dest_path, io_fault>>

\* lines 28-36: the regular files of the directory, in the order of os.listdir
ScanFiles ==
    /\ pc = "idle"
    /\ \E order \in Orders({n \in RootNames \cup DirNames : isfile(fs, n)}) :
          /\ order # <<>>
          /\ files' = order
    /\ index' = 0
    /\ pc' = "loop"
    /\ UNCHANGED <<fs, fs0, preview_only, organized_files, source_path, dest_path,
                   events, io_fault>>

\* the file of the current iteration
file == files[index + 1]

InLoop == pc = "loop" /\ index < Len(files)

\* lines 41-42: a hidden file is skipped
SkipHidden ==
    /\ InLoop
    /\ IsHidden(file)
    /\ index' = index + 1
    /\ UNCHANGED <<fs, fs0, preview_only, pc, files, organized_files, source_path,
                   dest_path, events, io_fault>>

\* variant: the mode test of line 55 is missing, a preview moves the file
PreviewEntryMoves ==
    /\ InLoop
    /\ ~IsHidden(file)
    /\ preview_only
    /\ LET ext == ExtKey(file)
           made == EnsureDir(fs, <<ext>>)
           dest == ResolveDest(made, ext, file)
       IN  /\ MoveAllowed(made, dest)
           /\ organized_files' = Count(organized_files, ext)
           /\ source_path' = <<file>>
           /\ dest_path' = dest
           /\ fs' = move(made, <<file>>, dest)
    /\ events' = Append(events, Signal("progress_update", Progress(index, Len(files))))
    /\ index' = index + 1
    /\ UNCHANGED <<fs0, preview_only, pc, files, io_fault>>

\* lines 44-54, 75-77: an iteration in preview mode
PreviewEntry ==
    /\ InLoop
    /\ ~IsHidden(file)
    /\ preview_only
    /\ organized_files' = Count(organized_files, ExtKey(file))
    /\ events' = Append(events, Signal("progress_update", Progress(index, Len(files))))
    /\ index' = index + 1
    /\ UNCHANGED <<fs, fs0, preview_only, pc, files, source_path, dest_path, io_fault>>

\* lines 44-77: an iteration in commit mode that moves the file
CommitEntry ==
    /\ InLoop
    /\ ~IsHidden(file)
    /\ ~preview_only
    /\ LET ext == ExtKey(file)
           made == EnsureDir(fs, <<ext>>)
           dest == ResolveDest(made, ext, file)
       IN  /\ MoveAllowed(made, dest)
           /\ organized_files' = Count(organized_files, ext)
           /\ source_path' = <<file>>
           /\ dest_path' = dest
           /\ fs' = move(made, <<file>>, dest)
    /\ events' = Append(events, Signal("progress_update", Progress(index, Len(files))))
    /\ index' = index + 1
    /\ UNCHANGED <<fs0, preview_only, pc, files, io_fault>>

\* lines 44-59, 85-86: os.makedirs raises
MakedirsRaises ==
    /\ InLoop
    /\ ~IsHidden(file)
    /\ ~preview_only
    /\ ~exists(fs, <<ExtKey(file)>>)
    /\ organized_files' = Count(organized_files, ExtKey(file))
    /\ io_fault' = TRUE
    /\ Raise("makedirs")
    /\ UNCHANGED <<fs, fs0, preview_only, files, index, source_path, dest_path>>

\* variant: the exception of shutil.move is caught inside the loop, which
\* goes on with the next file
MoveRaisesContinues ==
    /\ InLoop
    /\ ~IsHidden(file)
    /\ ~preview_only
    /\ LET ext == ExtKey(file)
           made == EnsureDir(fs, <<ext>>)
           dest == ResolveDest(made, ext, file)
       IN  /\ organized_files' = Count(organized_files, ext)
           /\ source_path' = <<file>>
           /\ dest_path' = dest
           /\ fs' = made
           /\ io_fault' = MoveAllowed(made, dest)
    /\ events' = Append(events, Signal("error_signal", ErrorMsg(preview_only, "move")))
    /\ index' = index + 1
    /\ UNCHANGED <<fs0, preview_only, pc, files>>

\* lines 44-73, 85-86: shutil.move raises, because the destination cannot
\* be written (its parent is a regular file) or for an outside reason
MoveRaises ==
    /\ InLoop
    /\ ~IsHidden(file)
    /\ ~preview_only
    /\ LET ext == ExtKey(file)
           made == EnsureDir(fs, <<ext>>)
           dest == ResolveDest(made, ext, file)
       IN  /\ organized_files' = Count(organized_files, ext)
           /\ source_path' = <<file>>
           /\ dest_path' = dest
           /\ fs' = made
           /\ io_fault' = MoveAllowed(made, dest)
    /\ Raise("move")
    /\ UNCHANGED <<fs0, preview_only, files, index>>

\* lines 79-83: the loop is over, emit the tally
EmitOutcome ==
    /\ pc = "loop"
    /\ index = Len(files)
    /\ events' = Append(events,
          Signal(IF preview_only THEN "preview_signal" ELSE "finished_signal", organized_files))
    /\ pc' = "done"
    /\ UNCHANGED <<fs, fs0, preview_only, files, index, organized_files, source_path,
                   dest_path, io_fault>>

\* a step of the thread; the thread touches no widget
Next ==
    \/ ListDirRaises /\ UNCHANGED appvars
    \/ ScanEmpty /\ UNCHANGED appvars
    \/ ScanFiles /\ UNCHANGED appvars
    \/ SkipHidden /\ UNCHANGED appvars
    \/ PreviewEntry /\ UNCHANGED appvars
    \/ CommitEntry /\ UNCHANGED appvars
    \/ MakedirsRaises /\ UNCHANGED appvars
    \/ MoveRaises /\ UNCHANGED appvars
    \/ EmitOutcome /\ UNCHANGED appvars

Spec == Init /\ [][Next]_vars

\* ---------------------------------------------------------- the window
\* lines 96-157: the window after initUI, on a directory of at most
\* AppMaxFiles regular files; no thread exists yet
AppInit ==
    /\ \E rootSet \in SUBSET RootNames, dirSet \in SUBSET DirNames, preSet \in SUBSET PrePaths :
          /\ Cardinality(rootSet) <= AppMaxFiles
          /\ Cardinality(preSet) <= AppMaxPre
          /\ rootSet \cap dirSet = {}
          /\ \A p \in preSet : p[1] \in dirSet
          /\ fs = InitialFs(rootSet, dirSet, preSet)
    /\ fs0 = fs
    /\ preview_only = FALSE
    /\ pc = "idle"
    /\ files = <<>>
    /\ index = 0
    /\ organized_files = EmptyDict
    /\ source_path = <<>>
    /\ dest_path = <<>>
    /\ events = <<>>
    /\ io_fault = FALSE
    /\ select_button = TRUE
    /\ preview_button = FALSE
    /\ organize_button = FALSE
    /\ preview_checkbox = TRUE
    /\ selected_dir = "None"
    /\ organizer_thread = "None"
    /\ connected = {}
    /\ handled = 0
    /\ progress_bar = "hidden"
    /\ results_list = <<>>
    /\ status_label = "Ready"
    /\ runs = 0
    /\ rerun = FALSE

\* lines 260-265
toggle_ui_elements(enabled) ==
    /\ organize_button' = enabled
    /\ preview_button' = enabled
    /\ select_button' = enabled
    /\ preview_checkbox' = enabled

\* lines 17-20 and start(): a new thread on selected_dir, connected as the
\* caller connects it
FileOrganizerThread(preview) ==
    /\ runs < MaxRuns
    /\ fs0' = fs
    /\ preview_only' = preview
    /\ pc' = "idle"
    /\ files' = <<>>
    /\ index' = 0
    /\ organized_files' = EmptyDict
    /\ source_path' = <<>>
    /\ dest_path' = <<>>
    /\ events' = <<>>
    /\ io_fault' = FALSE
    /\ organizer_thread' = "started"
    /\ connected' = Connections(preview)
    /\ handled' = 0
    /\ runs' = runs + 1
    /\ UNCHANGED fs

\* lines 159-167: the button is clicked, the dialog returns a directory or ""
select_directory ==
    /\ select_button
    /\ \E dir_path \in {"", "dir"} :
          IF dir_path # ""
          THEN /\ selected_dir' = dir_path
               /\ preview_button' = TRUE
               /\ organize_button' = TRUE
               /\ results_list' = <<>>
               /\ status_label' = "Ready to organize files"
               /\ UNCHANGED <<vars, select_button, preview_checkbox, organizer_thread,
                              connected, handled, progress_bar, runs, rerun>>
          ELSE UNCHANGED allvars

\* variant: the controls stay enabled when a preview starts
preview_filesKeepsControls ==
    /\ preview_button
    /\ selected_dir # "None"
    /\ progress_bar' = 0
    /\ results_list' = <<>>
    /\ status_label' = StartStatus(TRUE)
    /\ FileOrganizerThread(TRUE)
    /\ rerun' = FALSE
    /\ UNCHANGED <<selected_dir, organize_button, preview_button, select_button,
                   preview_checkbox>>

\* lines 169-187: the Preview button is clicked
preview_files ==
    /\ preview_button
    /\ selected_dir # "None"
    /\ toggle_ui_elements(FALSE)
    /\ progress_bar' = 0
    /\ results_list' = <<>>
    /\ status_label' = StartStatus(TRUE)
    /\ FileOrganizerThread(TRUE)
    /\ rerun' = FALSE
    /\ UNCHANGED selected_dir

\* lines 189-215: the Organize button is clicked, the question is answered
organize_files ==
    /\ organize_button
    /\ selected_dir # "None"
    /\ \E confirm \in {"Yes", "No"} :
          IF confirm = "Yes"
          THEN /\ toggle_ui_elements(FALSE)
               /\ progress_bar' = 0
               /\ results_list' = <<>>
               /\ status_label' = StartStatus(FALSE)
               /\ FileOrganizerThread(FALSE)
               /\ rerun' = (status_label = "Organization completed!")
               /\ UNCHANGED selected_dir
          ELSE UNCHANGED allvars

\* the signal at the head of the queue, when its slot is connected
Pending == organizer_thread = "started" /\ handled < Len(events)

signal == events[handled + 1]

\* lines 217-218
update_progress ==
    /\ Pending
    /\ signal.sig = "progress_update" /\ signal.sig \in connected
    /\ progress_bar' = signal.arg
    /\ handled' = handled + 1
    /\ UNCHANGED <<vars, select_button, preview_button, organize_button, preview_checkbox,
                   selected_dir, organizer_thread, connected, results_list, status_label,
                   runs, rerun>>

\* lines 226, 242: sum(organized_files.values())
RECURSIVE sum_values(_)
sum_values(t) ==
    IF DOMAIN t = {} THEN 0
    ELSE LET k == CHOOSE k \in DOMAIN t : TRUE
         IN  t[k] + sum_values([j \in DOMAIN t \ {k} |-> t[j]])

\* lines 220-234
preview_finished ==
    /\ Pending
    /\ signal.sig = "preview_signal" /\ signal.sig \in connected
    /\ toggle_ui_elements(TRUE)
    /\ results_list' = <<"PREVIEW", sum_values(signal.arg), signal.arg>>
    /\ status_label' = "Preview completed! Use Organize Files to perform the actual organization."
    /\ handled' = handled + 1
    /\ UNCHANGED <<vars, selected_dir, organizer_thread, connected, progress_bar, runs, rerun>>

\* lines 236-250
organization_finished ==
    /\ Pending
    /\ signal.sig = "finished_signal" /\ signal.sig \in connected
    /\ toggle_ui_elements(TRUE)
    /\ results_list' = <<"ORGANIZED", sum_values(signal.arg), signal.arg>>
    /\ status_label' = "Organization completed!"
    /\ handled' = handled + 1
    /\ UNCHANGED <<vars, selected_dir, organizer_thread, connected, progress_bar, runs, rerun>>

\* lines 252-258
show_error ==
    /\ Pending
    /\ signal.sig = "error_signal" /\ signal.sig \in connected
    /\ toggle_ui_elements(TRUE)
    /\ status_label' = "Error occurred"
    /\ handled' = handled + 1
    /\ UNCHANGED <<vars, selected_dir, organizer_thread, connected, progress_bar,
                   results_list, runs, rerun>>

\* lines 22-86: the started thread runs
run == organizer_thread = "started" /\ Next

AppNext ==
    \/ select_directory
    \/ preview_files
    \/ organize_files
    \/ update_progress
    \/ preview_finished
    \/ organization_finished
    \/ show_error
    \/ run

AppSpec == AppInit /\ [][AppNext]_allvars

\* lines 39-83 as one function: the commit run over order[i..] from the
\* tree f and the dict t, when no filesystem call fails for an outside
\* reason. ok is FALSE when shutil.move raised (lines 85-86).
RECURSIVE CommitRun(_, _, _, _)
CommitRun(f, t, order, i) ==
    IF i > Len(order)
    THEN [fs |-> f, tally |-> t, ok |-> TRUE]
    ELSE IF IsHidden(order[i])
    THEN CommitRun(f, t, order, i + 1)
    ELSE LET ext == ExtKey(order[i])
             made == EnsureDir(f, <<ext>>)
             dest == ResolveDest(made, ext, order[i])
         IN  IF MoveAllowed(made, dest)
             THEN CommitRun(move(made, <<order[i]>>, dest), Count(t, ext), order, i + 1)
             ELSE [fs |-> made, tally |-> Count(t, ext), ok |-> FALSE]

\* ------------------------------------------------- the spec's vocabulary
\* These definitions restate the words of the claims; the code is not
\* consulted for them.

\* a name that starts with '.'
Hidden(name) == name # <<>> /\ Head(name) = "."

\* the qualifying files of a directory: regular, not hidden
Qualifying(f) == {n \in RootNames \cup DirNames : isfile(f, n) /\ ~Hidden(n)}

\* the positions of '.' in a name
Dots(name) == {i \in 1..Len(name) : name[i] = "."}

\* the name split at its last '.': <<base, ext>>, ext with its dot
SplitAtLastDot(name) ==
    IF Dots(name) = {} THEN <<name, <<>> >>
    ELSE LET d == CHOOSE i \in Dots(name) : \A j \in Dots(name) : j <= i
         IN  <<SubSeq(name, 1, d - 1), SubSeq(name, d, Len(name))>>

\* the extension key: the lowercased text after the last '.', or the sentinel
KeyOf(name) ==
    LET ext == SplitAtLastDot(name)[2]
    IN  IF Len(ext) <= 1 THEN no_extension
        ELSE [i \in 1..(Len(ext) - 1) |-> LowerChar(ext[i + 1])]

\* the sum of the counts of a tally
RECURSIVE Total(_)
Total(t) ==
    IF DOMAIN t = {} THEN 0
    ELSE LET k == CHOOSE x \in DOMAIN t : TRUE
         IN  t[k] + Total([x \in DOMAIN t \ {k} |-> t[x]])

IsProgress(e) == e.sig = "progress_update"
IsTally(e) == e.sig \in {"preview_signal", "finished_signal"}
IsFailure(e) == e.sig = "error_signal"
IsTerminal(e) == IsTally(e) \/ IsFailure(e)

LastEvent == events[Len(events)]
Succeeded == pc = "done" /\ events # <<>> /\ IsTally(LastEvent)
Failed == pc = "done" /\ events # <<>> /\ IsFailure(LastEvent)

\* the subdirectories of the source directory
Subdirs(f) == {p[1] : p \in {q \in DOMAIN f : Len(q) = 1 /\ f[q] = DIR}}

\* the file that was in the root under this name at the start is still there
AtRoot(f, name) == <<name>> \in DOMAIN f /\ f[<<name>>] = <<name>>

\* the names inside a subdirectory
Inside(f, d) == {p[2] : p \in {q \in DOMAIN f : Len(q) = 2 /\ q[1] = d}}

\* the values of the ProgressEvents emitted so far, in order
ProgressValues == [i \in {j \in 1..Len(events) : IsProgress(events[j])} |-> events[i].arg]

\* ------------------------------------------------------------------ claims

\* C1: a run (either mode) over a directory with no regular file, or with
\* only hidden regular files, emits no ProgressEvent and ends with the
\* Failure that carries the empty-directory message, never with a Success
\* carrying an empty Tally.  (Runs in which a filesystem call failed for an
\* outside reason are left out.)
C1_EmptyDirectoryFails ==
    (pc = "done" /\ ~io_fault /\ Qualifying(fs0) = {}) =>
        /\ Len(events) = 1
        /\ IsFailure(events[1])
        /\ events[1].arg = NoFilesMsg

\* C2: over a directory with N > 0 qualifying files, whatever else it holds
\* and whatever the enumeration order, the ProgressEvents are non-decreasing,
\* and when the run ends in Success the last event before the terminal
\* outcome is the ProgressEvent 100.
C2_ProgressReaches100 ==
    Qualifying(fs0) # {} =>
        /\ \A i, j \in DOMAIN ProgressValues : i <= j => ProgressValues[i] <= ProgressValues[j]
        /\ Succeeded =>
              /\ Len(events) >= 2
              /\ IsProgress(events[Len(events) - 1])
              /\ events[Len(events) - 1].arg = 100

\* C3: every run emits exactly one terminal outcome, which is its last
\* event.  In every state a terminal event is only ever the last event, the
\* run has returned exactly when one has been emitted, and a run that has
\* not returned has a step to take (idle, or in the loop with an entry or
\* the final emission ahead).  Every step goes forward: idle to the loop or
\* to the end, the loop to its next entry or to the end; a run that has
\* returned takes no step, so nothing follows the terminal outcome and the
\* run never returns to scanning or processing.
C3_State ==
    /\ \A i \in 1..Len(events) : IsTerminal(events[i]) => i = Len(events)
    /\ pc = "done" <=> (events # <<>> /\ IsTerminal(LastEvent))
    /\ pc = "idle" => events = <<>>
    /\ pc = "loop" => (files # <<>> /\ index <= Len(files))

C3_Step ==
    \/ pc = "idle" /\ pc' = "loop" /\ events' = events
    \/ pc = "idle" /\ pc' = "done" /\ Len(events') = 1
    \/ pc = "loop" /\ pc' = "loop" /\ index' = index + 1
    \/ pc = "loop" /\ pc' = "done" /\ Len(events') = Len(events) + 1

C3_OneTerminalLast == [](C3_State) /\ [][C3_Step]_vars

\* a run that emitted progress and then its tally
C3_Witness ==
    /\ Succeeded
    /\ Len(events) >= 3
    /\ \A i \in 1..(Len(events) - 1) : IsProgress(events[i])

\* C4: a preview run leaves the filesystem unchanged at every step, and its
\* Success Tally has one entry per distinct extension key of the N
\* qualifying files (K entries), with counts that sum to N.
C4_PreviewFrame ==
    preview_only =>
        /\ fs = fs0
        /\ Succeeded =>
              /\ LastEvent.sig = "preview_signal"
              /\ DOMAIN LastEvent.arg = {KeyOf(n) : n \in Qualifying(fs0)}
              /\ Total(LastEvent.arg) = Cardinality(Qualifying(fs0))

\* a finished preview of three files with two keys
C4_Witness ==
    /\ preview_only
    /\ Succeeded
    /\ Cardinality(Qualifying(fs0)) = 3
    /\ Cardinality(DOMAIN LastEvent.arg) = 2
    /\ Subdirs(fs0) # {}

\* C5: over a directory with N qualifying files of K distinct keys and no
\* subdirectory, a commit run ends in Success with a Tally summing to N;
\* afterwards exactly the K key subdirectories exist, each holds exactly the
\* files of its key, and no qualifying file is left in the root.  (Stated
\* for N > 0 and for runs in which no filesystem call failed for an outside
\* reason.)
C5_CommitSorts ==
    (~preview_only /\ pc = "done" /\ ~io_fault /\ Subdirs(fs0) = {} /\ Qualifying(fs0) # {}) =>
        /\ Succeeded
        /\ Total(LastEvent.arg) = Cardinality(Qualifying(fs0))
        /\ Subdirs(fs) = {KeyOf(n) : n \in Qualifying(fs0)}
        /\ \A d \in Subdirs(fs) : Inside(fs, d) = {n \in Qualifying(fs0) : KeyOf(n) = d}
        /\ Qualifying(fs) = {}

\* the collision name {base}_{c}{ext} of a file, base and ext being the
\* original name split at its last '.'
Renamed(name, c) ==
    SplitAtLastDot(name)[1] \o <<"_">> \o IntStr(c) \o SplitAtLastDot(name)[2]

\* C6: in commit mode the destination chosen for a file does not exist when
\* it is chosen: it is key/originalName when that path is free, otherwise
\* key/{base}_{c}{ext} for the smallest c >= 1 whose path is free; and no
\* step of a run overwrites, renames or removes an entry that lies in a
\* subdirectory.
C6_Step ==
    /\ source_path' # source_path =>
          LET k == KeyOf(file)
          IN  /\ source_path' = <<file>>
              /\ ~exists(fs, dest_path')
              /\ IF ~exists(fs, <<k, file>>)
                 THEN dest_path' = <<k, file>>
                 ELSE \E c \in 1..(Cardinality(DOMAIN fs) + 1) :
                        /\ dest_path' = <<k, Renamed(file, c)>>
                        /\ \A b \in 1..(c - 1) : exists(fs, <<k, Renamed(file, b)>>)
    /\ \A p \in DOMAIN fs : Len(p) = 2 => (p \in DOMAIN fs' /\ fs'[p] = fs[p])

C6_DestinationFree == [][C6_Step]_vars

\* report.txt met txt/report.txt: it went to txt/report_1.txt and the file
\* that was there is untouched (with a.txt for report.txt)
C6_Witness ==
    /\ source_path = <<N_a_txt>>
    /\ dest_path = <<N_txt, N_a_1_txt>>
    /\ <<N_txt, N_a_txt>> \in DOMAIN fs0
    /\ fs[<<N_txt, N_a_txt>>] = <<N_txt, N_a_txt>>
    /\ fs[<<N_txt, N_a_1_txt>>] = <<N_a_txt>>

\* a Failure was emitted from inside the loop of a commit run
FailureInLoop == ~preview_only /\ files # <<>> /\ \E i \in 1..Len(events) : IsFailure(events[i])

\* C7: when a move or a directory creation fails for a file of a commit
\* run, the run stops at that file: the Failure is the last event and the
\* only terminal one, the run has returned, no ProgressEvent and no tally of
\* a later file follows, every file moved before stays in a subdirectory
\* and every file from the failing one on stays in the root.
C7_AbortOnFailure ==
    FailureInLoop =>
        /\ pc = "done"
        /\ index < Len(files)
        /\ IsFailure(LastEvent)
        /\ \A i \in 1..(Len(events) - 1) : IsProgress(events[i])
        /\ Len(events) - 1 = Cardinality({i \in 1..index : ~Hidden(files[i])})
        /\ Total(organized_files) = Cardinality({i \in 1..(index + 1) : ~Hidden(files[i])})
        /\ \A i \in 1..index : ~Hidden(files[i]) =>
              /\ ~AtRoot(fs, files[i])
              /\ \E p \in DOMAIN fs : Len(p) = 2 /\ fs[p] = <<files[i]>>
        /\ \A i \in (index + 1)..Len(files) : AtRoot(fs, files[i])

\* the second of three files failed after the first had been moved
C7_Witness ==
    /\ FailureInLoop
    /\ pc = "done"
    /\ Len(files) = 3
    /\ index = 1
    /\ ~Hidden(files[1])
    /\ ~AtRoot(fs, files[1])
    /\ AtRoot(fs, files[2])
    /\ AtRoot(fs, files[3])

\* C8: hidden files are skipped in both modes: each stays in the root
\* under its name with its content in every state of every run, no count
\* of the tally exceeds the number of qualifying files of its key, and the
\* Success Tally sums to the number of qualifying files.
C8_HiddenUntouched ==
    /\ \A n \in RootNames : (Hidden(n) /\ isfile(fs0, n)) =>
          (<<n>> \in DOMAIN fs /\ fs[<<n>>] = fs0[<<n>>])
    /\ \A k \in DOMAIN organized_files :
          organized_files[k] <= Cardinality({n \in Qualifying(fs0) : KeyOf(n) = k})
    /\ Succeeded => Total(LastEvent.arg) = Cardinality(Qualifying(fs0))

\* a commit over .s and one other file: the tally counts 1, .s is in place
C8_Witness ==
    /\ ~preview_only
    /\ Succeeded
    /\ isfile(fs0, N_hidden)
    /\ Cardinality(Qualifying(fs0)) = 1
    /\ Total(LastEvent.arg) = 1
    /\ Qualifying(fs) = {}
    /\ isfile(fs, N_hidden)

\* C9: a file that has left the root lies in the subdirectory named by
\* its lowercased key (so files whose extensions differ only in case share
\* it), under its original name or, after a collision, under
\* {base}_{c}{ext} built from the original base and the original extension
\* string.
C9_CasePreserved ==
    \A n \in Qualifying(fs0) : ~AtRoot(fs, n) =>
        \E p \in DOMAIN fs :
            /\ Len(p) = 2
            /\ fs[p] = <<n>>
            /\ p[1] = KeyOf(n)
            /\ \/ p[2] = n
               \/ \E c \in 1..Cardinality(DOMAIN fs) : p[2] = Renamed(n, c)

\* a.txt and a.TXT both lie in txt; a.TXT met txt/a.TXT and became a_1.TXT
C9_Witness ==
    /\ <<N_txt, N_a_txt>> \in DOMAIN fs
    /\ fs[<<N_txt, N_a_txt>>] = <<N_a_txt>>
    /\ <<N_txt, <<"a", "_", "1", ".", "T", "X", "T">> >> \in DOMAIN fs
    /\ fs[<<N_txt, <<"a", "_", "1", ".", "T", "X", "T">> >>] = <<N_a_TXT>>

\* a name without an extension: no '.', or nothing after the last '.'
NoExtension(name) == Len(SplitAtLastDot(name)[2]) <= 1

\* C10: the extension key of a qualifying name is the lowercased text
\* after its last '.', or no_extension when there is no '.' or nothing
\* after it; and after a commit run every file without an extension,
\* whatever its name, lies at no_extension/<originalName>.  (Stated for
\* files whose place in no_extension was free at the start and for runs in
\* which no filesystem call failed for an outside reason.)
C10_NoExtension ==
    /\ \A n \in RootNames : ~Hidden(n) => ExtKey(n) = KeyOf(n)
    /\ (~preview_only /\ pc = "done" /\ ~io_fault) =>
          \A n \in Qualifying(fs0) :
              (NoExtension(n) /\ <<no_extension, n>> \notin DOMAIN fs0) =>
                  /\ <<no_extension, n>> \in DOMAIN fs
                  /\ fs[<<no_extension, n>>] = <<n>>

\* the words of a message
Words(msg) == {msg[i] : i \in 1..Len(msg)}

\* the phase in progress
Phase == IF preview_only THEN "previewing" ELSE "organizing"

\* an exception was raised inside run: by a filesystem call that failed
\* for an outside reason, or by a move into a path that is no directory
Raised == io_fault \/ (dest_path # <<>> /\ ~isdir(fs, dest_path[1]))

\* C11: an exception raised while scanning or processing is caught inside
\* the run: the run has returned with a Failure as its last event, whose
\* message names the phase in progress ('previewing' in preview mode,
\* 'organizing' in commit mode) and differs from the
\* no-files-found message; the no-files-found message is emitted only when
\* nothing was raised.
C11_ExceptionsCaught ==
    /\ Raised =>
          /\ Failed
          /\ LastEvent.arg # NoFilesMsg
          /\ Phase \in Words(LastEvent.arg)
    /\ \A i \in 1..Len(events) : IsFailure(events[i]) =>
          \/ Raised /\ i = Len(events)
          \/ ~Raised /\ events[i].arg = NoFilesMsg

\* a preview whose os.listdir raised
C11_Witness ==
    /\ preview_only
    /\ Raised
    /\ Failed
    /\ "previewing" \in Words(LastEvent.arg)

\* C13: in commit mode, whenever a file is moved, the path of its key
\* under the source directory is a directory (created when absent, reused
\* when present), also when a regular file of the source directory is named
\* like the key.
C13_ExtDirIsDirectory ==
    (~preview_only /\ dest_path # <<>>) => isdir(fs, dest_path[1])

\* C14: one ProgressEvent follows each processed qualifying entry, the k-th
\* one is floor(k / N * 100) for N the number of qualifying files, and every
\* value lies in 0..100.
C14_ProgressFormula ==
    /\ \A k \in 1..Len(events) : IsProgress(events[k]) =>
          /\ events[k].arg = (k * 100) \div Cardinality(Qualifying(fs0))
          /\ events[k].arg \in 0..100
    /\ pc = "loop" =>
          Len(events) = Cardinality({i \in 1..index : ~Hidden(files[i])})

\* the paths of the regular files of a directory tree
FilePaths(f) == {p \in DOMAIN f : f[p] # DIR}

\* C16: a commit run conserves files: in every state each regular file of
\* the start lies at exactly one path, its original one or (for a file of
\* the root) a path inside the subdirectory of its key, and the tree holds
\* as many regular files as at the start.
C16_FilesConserved ==
    ~preview_only =>
        /\ \A p0 \in FilePaths(fs0) :
              /\ Cardinality({p \in DOMAIN fs : fs[p] = p0}) = 1
              /\ \A p \in DOMAIN fs : fs[p] = p0 =>
                    \/ p = p0
                    \/ Len(p0) = 1 /\ Len(p) = 2 /\ p[1] = KeyOf(p0[1]) /\ isdir(fs, p[1])
        /\ Cardinality(FilePaths(fs)) = Cardinality(FilePaths(fs0))

\* a commit run that moved a file next to files that were there, and then
\* failed on its second file
C16_Witness ==
    /\ FailureInLoop
    /\ index = 1
    /\ ~AtRoot(fs, files[1])
    /\ AtRoot(fs, files[2])
    /\ \E p \in FilePaths(fs0) : Len(p) = 2
    /\ Cardinality(FilePaths(fs)) >= 3

\* the paths at which the file that started at p0 lies in f
PathsOf(f, p0) == {p \in DOMAIN f : f[p] = p0}

\* a commit run over a non-empty list has returned, nothing failed for an
\* outside reason
CommitRunOver == pc = "done" /\ ~preview_only /\ ~io_fault /\ files # <<>>

\* the function and the steps of the run agree
CommitRunAgrees ==
    CommitRunOver =>
        CommitRun(fs0, EmptyDict, files, 1) =
            [fs |-> fs, tally |-> organized_files, ok |-> Succeeded]

\* C15: for a fixed initial content, every enumeration order gives a commit
\* run of the same kind of outcome (Success or Failure), the same Tally
\* and the same final path for every file as the order this run used.
C15_OrderIndependent ==
    CommitRunOver =>
        \A order \in Orders({files[i] : i \in 1..Len(files)}) :
            LET other == CommitRun(fs0, EmptyDict, order, 1)
            IN  /\ other.ok = Succeeded
                /\ Succeeded => other.tally = organized_files
                /\ \A p0 \in FilePaths(fs0) : PathsOf(other.fs, p0) = PathsOf(fs, p0)

\* a run is in flight: a thread was started and has not returned, or the
\* handler of one of its events has not executed yet
InFlight == organizer_thread = "started" /\ ~(pc = "done" /\ handled = Len(events))

\* C12: in the window at most one run is in flight: while a run is in
\* flight (from its start until the handler of its terminal event has
\* executed) the start controls select, preview and organize are all
\* disabled; every signal waiting in the queue has a slot, so the terminal
\* event reaches a handler; and once the handler of the terminal event has
\* executed the three controls are enabled again.
C12_OneRunInFlight ==
    /\ InFlight => ~select_button /\ ~preview_button /\ ~organize_button
    /\ Pending => signal.sig \in connected
    /\ (organizer_thread = "started" /\ ~InFlight) =>
          /\ IsTerminal(LastEvent)
          /\ select_button /\ preview_button /\ organize_button

\* the terminal event of a second run waits for its handler, the controls
\* are disabled
C12_Witness ==
    /\ runs = 2
    /\ Pending
    /\ IsTerminal(signal)
    /\ ~select_button /\ ~preview_button /\ ~organize_button

\* C17: a commit run started on the same directory right after a
\* successful commit run (the window still shows "Organization completed!")
\* moves no file and creates no directory: the tree stays as the first run
\* left it, and unless a filesystem call fails for an outside reason the
\* run ends with the no-files-found Failure or with an empty Tally.
C17_SecondCommitIdempotent ==
    rerun =>
        /\ ~preview_only
        /\ fs = fs0
        /\ (pc = "done" /\ ~io_fault) =>
              \/ LastEvent = Signal("error_signal", NoFilesMsg)
              \/ LastEvent = Signal("finished_signal", EmptyDict)

\* the second run has ended with an empty Tally on a directory in which the
\* first run moved a file and left a hidden one
C17_Witness ==
    /\ rerun
    /\ pc = "done"
    /\ LastEvent = Signal("finished_signal", EmptyDict)
    /\ \E p \in FilePaths(fs) : Len(p) = 2 /\ Len(fs[p]) = 1
    /\ \E name \in RootNames : Hidden(name) /\ AtRoot(fs, name)
====
